---- MODULE Spec2Model ----
(***************************************************************************)
(* The real-time private-messaging relay of Fellowship (Socket.IO server). *)
(* The repository holds two versions of the relay: the first one relays    *)
(* only and broadcasts the online list (SpecV1), the second one stores     *)
(* every message and flushes the backlog on user_join (Spec).  Every       *)
(* action is one event handler, run to completion (Node's event loop       *)
(* serialises the handlers); `last` is the position of the event loop: the *)
(* handler that has just run, or "idle" once its packets are written out   *)
(* and the loop waits for the next event.                                  *)
(***************************************************************************)
EXTENDS Integers, Sequences, FiniteSets, TLC

\* ------------------------------------------------------------------ bounds
MaxConns == 2
MaxMsgs == 2

\* Usernames are strings, modelled as sequences of UTF-16 code units
\* ("a" = <<97>>, "b" = <<98>>, "_" = 95).
Users == { <<97>>, <<98>> }
\* The text and the timestamp a client sends are stored and echoed, never
\* inspected: each sender name has its own.  isAuthenticated is stored and
\* never read.
Payload(from) == IF from = <<97>> THEN [message |-> "hi", timestamp |-> "T1"]
                 ELSE [message |-> "yo", timestamp |-> "T2"]
AuthFlags == { TRUE }
Conns == 1..MaxConns
MsgIds == 1..MaxMsgs

VARIABLES
    nConn,           \* number of socket ids handed out so far (ids are never reused)
    open,            \* the sockets that are connected
    connectedUsers,  \* Map username -> {socketId, isAuthenticated}
    userSockets,     \* Map socket.id -> username
    rooms,           \* socket -> usernames u whose room `user_${u}` it joined
    messageStore,    \* Map conversationId -> array of messages, in insertion order
    nextId,          \* number of message ids generated so far
    inbox,           \* history: the private_message ids each socket received, in order
    emitted,         \* the emit calls of the handler that has just run, in order
    last,            \* the handler that has just run: event, socket, payload, locals
    listening,       \* the HTTP server accepts new connections (server.listening)
    sockets,         \* client: the state of every socket the SocketService created
    current,         \* client: this.socket, an index of sockets, 0 for null
    currentUser,     \* client: this.currentUser
    userJoins        \* client history: the user_join events sent, as {socket, username}

clientVars == << sockets, current, currentUser, userJoins >>

vars == << nConn, open, connectedUsers, userSockets, rooms,
           messageStore, nextId, inbox, emitted, last, listening, clientVars >>

\* ------------------------------------------------------------ Map helpers
Has(m, k) == k \in DOMAIN m
MapSet(m, k, v) == [x \in DOMAIN m \cup {k} |-> IF x = k THEN v ELSE m[x]]
MapDelete(m, k) == [x \in DOMAIN m \ {k} |-> m[x]]
EmptyMap == [x \in {} |-> 0]

\* ------------------------------------------------------ conversation store
RECURSIVE StrLess(_, _)
\* s < t in the order Array.prototype.sort uses for strings (by code unit)
StrLess(s, t) ==
    IF t = <<>> THEN FALSE
    ELSE IF s = <<>> THEN TRUE
    ELSE IF Head(s) # Head(t) THEN Head(s) < Head(t)
    ELSE StrLess(Tail(s), Tail(t))

\* faulty variant: the two names are joined as given, without the sort
getConversationIdUnsorted(user1, user2) == user1 \o <<95>> \o user2

getConversationId(user1, user2) ==
    IF StrLess(user2, user1) THEN user2 \o <<95>> \o user1
    ELSE user1 \o <<95>> \o user2

\* index of the bucket of `key` in the store, 0 when there is none
BucketIndex(store, key) ==
    IF \E i \in 1..Len(store) : store[i].key = key
    THEN CHOOSE i \in 1..Len(store) : store[i].key = key
    ELSE 0

\* messageStore.get(key) || []
BucketOf(store, key) ==
    IF BucketIndex(store, key) = 0 THEN <<>> ELSE store[BucketIndex(store, key)].msgs

NewMessage(id, from, to, message, timestamp) ==
    [ id |-> id, from |-> from, to |-> to, message |-> message,
      timestamp |-> timestamp, delivered |-> FALSE, read |-> FALSE ]

\* faulty variant: the new message is put in front of its bucket (unshift for push)
storeMessageUnshift(store, id, from, to, message, timestamp) ==
    LET key == getConversationId(from, to)
        s1 == IF BucketIndex(store, key) = 0
              THEN Append(store, [key |-> key, msgs |-> <<>>])
              ELSE store
        i == BucketIndex(s1, key)
    IN  [s1 EXCEPT ![i].msgs = << NewMessage(id, from, to, message, timestamp) >> \o @]

storeMessage(store, id, from, to, message, timestamp) ==
    LET key == getConversationId(from, to)
        s1 == IF BucketIndex(store, key) = 0
              THEN Append(store, [key |-> key, msgs |-> <<>>])
              ELSE store
        i == BucketIndex(s1, key)
    IN  [s1 EXCEPT ![i].msgs = Append(@, NewMessage(id, from, to, message, timestamp))]

getConversationMessages(store, user1, user2) ==
    BucketOf(store, getConversationId(user1, user2))

RECURSIVE AllMessages(_)
\* every stored message, bucket after bucket
AllMessages(store) ==
    IF store = <<>> THEN <<>> ELSE Head(store).msgs \o AllMessages(Tail(store))

Range(s) == { s[i] : i \in 1..Len(s) }
StoredMsgs == Range(AllMessages(messageStore))

\* ------------------------------------------------------------------- emits
\* socket.emit(ev, data) inside the handler of socket c
SocketEmit(c, ev, data) ==
    [ ev |-> ev, kind |-> "socket", sock |-> c, user |-> <<>>,
      rcv |-> {c} \cap open, data |-> data ]

\* io.to(`user_${u}`).emit(ev, data): every connected socket in the room
RoomEmit(u, ev, data) ==
    [ ev |-> ev, kind |-> "user_room", sock |-> 0, user |-> u,
      rcv |-> { c \in open : u \in rooms[c] }, data |-> data ]

\* io.to(socketId).emit(ev, data): the socket's own room
SidEmit(sid, ev, data) ==
    [ ev |-> ev, kind |-> "sid_room", sock |-> sid, user |-> <<>>,
      rcv |-> {sid} \cap open, data |-> data ]

\* io.emit(ev, data) with the sockets `conns` connected
BroadcastEmit(conns, ev, data) ==
    [ ev |-> ev, kind |-> "all", sock |-> 0, user |-> <<>>,
      rcv |-> conns, data |-> data ]

RECURSIVE ReceivedIds(_, _)
\* the ids of the private_message events socket c receives from the calls es
ReceivedIds(es, c) ==
    IF es = <<>> THEN <<>>
    ELSE (IF Head(es).ev = "private_message" /\ c \in Head(es).rcv
          THEN << Head(es).data.id >> ELSE <<>>) \o ReceivedIds(Tail(es), c)

Deliver(es) == [c \in Conns |-> inbox[c] \o ReceivedIds(es, c)]

\* -------------------------------------------------------------- event loop
Idle == [op |-> "idle", sock |-> 0]

Init ==
    /\ nConn = 0
    /\ open = {}
    /\ connectedUsers = EmptyMap
    /\ userSockets = EmptyMap
    /\ rooms = [c \in Conns |-> {}]
    /\ messageStore = <<>>
    /\ nextId = 0
    /\ inbox = [c \in Conns |-> <<>>]
    /\ emitted = <<>>
    /\ last = Idle
    /\ listening = TRUE
    /\ sockets = <<>>
    /\ current = 0
    /\ currentUser = <<>>
    /\ userJoins = {}

\* the handler has returned and its packets are written to the transports:
\* the loop takes the next event
next_event ==
    /\ last # Idle
    /\ last' = Idle
    /\ emitted' = <<>>
    /\ UNCHANGED << nConn, open, connectedUsers, userSockets, rooms, messageStore,
                    nextId, inbox >>
    /\ UNCHANGED << listening, clientVars >>

\* io.on('connection'): a new socket with a fresh id
connection ==
    /\ last = Idle
    /\ listening
    /\ nConn < MaxConns
    /\ nConn' = nConn + 1
    /\ open' = open \cup {nConn + 1}
    /\ emitted' = <<>>
    /\ last' = [op |-> "connection", sock |-> nConn + 1]
    /\ UNCHANGED << connectedUsers, userSockets, rooms, messageStore, nextId, inbox >>
    /\ UNCHANGED << listening, clientVars >>

\* ------------------------------------------- the storing relay's handlers
\* faulty variant: the messages handed over are taken out of their buckets
MarkDeliveredPrune(store, ids) ==
    [i \in 1..Len(store) |->
        [store[i] EXCEPT !.msgs = SelectSeq(@, LAMBDA msg : msg.id \notin ids)]]

\* in every bucket, the messages whose id is in ids get delivered = true
MarkDelivered(store, ids) ==
    [i \in 1..Len(store) |->
        [store[i] EXCEPT !.msgs =
            [j \in 1..Len(store[i].msgs) |->
                IF store[i].msgs[j].id \in ids
                THEN [store[i].msgs[j] EXCEPT !.delivered = TRUE]
                ELSE store[i].msgs[j]]]]

\* faulty variant: the filter forgets the delivered flag
UndeliveredAll(msgs, username) ==
    SelectSeq(msgs, LAMBDA msg : msg.to = username)

\* faulty variant: the pending messages of a bucket are taken newest first
UndeliveredNewestFirst(msgs, username) ==
    LET kept == SelectSeq(msgs, LAMBDA msg : msg.to = username /\ ~msg.delivered)
    IN  [k \in 1..Len(kept) |-> kept[Len(kept) + 1 - k]]

\* messages.filter(msg => msg.to === username && !msg.delivered)
Undelivered(msgs, username) ==
    SelectSeq(msgs, LAMBDA msg : msg.to = username /\ ~msg.delivered)

RECURSIVE PendingMessages(_, _)
\* the undelivered messages to username, bucket after bucket (Map order)
PendingMessages(store, username) ==
    IF store = <<>> THEN <<>>
    ELSE Undelivered(Head(store).msgs, username)
         \o PendingMessages(Tail(store), username)

\* faulty variant: the pending messages are emitted and their flag is left alone
deliverPendingNoMark(store, c, username) ==
    LET pending == PendingMessages(store, username)
    IN  [ emits |-> [k \in 1..Len(pending) |->
                        SocketEmit(c, "private_message", pending[k])],
          store |-> store ]

\* faulty variant: only the first bucket that holds pending messages is flushed
deliverPendingFirstBucket(store, c, username) ==
    LET holds(i) == Undelivered(store[i].msgs, username) # <<>>
        first == IF \E i \in 1..Len(store) : holds(i)
                 THEN CHOOSE i \in 1..Len(store) :
                        holds(i) /\ \A k \in 1..(i - 1) : ~holds(k)
                 ELSE 0
        pending == IF first = 0 THEN <<>> ELSE Undelivered(store[first].msgs, username)
    IN  [ emits |-> [k \in 1..Len(pending) |->
                        SocketEmit(c, "private_message", pending[k])],
          store |-> [i \in 1..Len(store) |->
                        IF i = first
                        THEN [store[i] EXCEPT !.msgs =
                                [j \in 1..Len(store[i].msgs) |->
                                    IF store[i].msgs[j].to = username
                                    THEN [store[i].msgs[j] EXCEPT !.delivered = TRUE]
                                    ELSE store[i].msgs[j]]]
                        ELSE store[i]] ]

\* deliverPendingMessages(username) in the closure of socket c:
\* the emit calls it makes and the store it leaves
deliverPendingMessages(store, c, username) ==
    LET pending == PendingMessages(store, username)
    IN  [ emits |-> [k \in 1..Len(pending) |->
                        SocketEmit(c, "private_message", pending[k])],
          store |-> MarkDelivered(store,
                        { pending[k].id : k \in 1..Len(pending) }) ]

\* faulty variant: a username that is already registered keeps its entry
RegisterFirstWins(c, username, isAuthenticated) ==
    /\ connectedUsers' = IF Has(connectedUsers, username) THEN connectedUsers
                         ELSE MapSet(connectedUsers, username,
                                [socketId |-> c, isAuthenticated |-> isAuthenticated])
    /\ userSockets' = MapSet(userSockets, c, username)
    /\ rooms' = [rooms EXCEPT ![c] = @ \cup {username}]

\* connectedUsers.set(username, {...}); userSockets.set(socket.id, username);
\* socket.join(`user_${username}`)
Register(c, username, isAuthenticated) ==
    /\ connectedUsers' = MapSet(connectedUsers, username,
                            [socketId |-> c, isAuthenticated |-> isAuthenticated])
    /\ userSockets' = MapSet(userSockets, c, username)
    /\ rooms' = [rooms EXCEPT ![c] = @ \cup {username}]

user_join(c, username, isAuthenticated) ==
    /\ last = Idle
    /\ c \in open
    /\ Register(c, username, isAuthenticated)
    /\ LET flush == deliverPendingMessages(messageStore, c, username)
       IN  /\ messageStore' = flush.store
           /\ emitted' = flush.emits
           /\ inbox' = Deliver(flush.emits)
    /\ last' = [op |-> "user_join", sock |-> c, username |-> username]
    /\ UNCHANGED << nConn, open, nextId >>
    /\ UNCHANGED << listening, clientVars >>

Ack(to, message, timestamp, status, id) ==
    [ to |-> to, message |-> message, timestamp |-> timestamp,
      status |-> status, messageId |-> id ]

\* faulty variant: an offline recipient is answered as the relay-only version does
RouteMessageError(store, c, id, to, from, message, timestamp) ==
    LET storedMessage == NewMessage(id, from, to, message, timestamp)
    IN  IF Has(connectedUsers, to)
        THEN [ emits |-> << RoomEmit(to, "private_message", storedMessage),
                            SocketEmit(c, "message_sent",
                                Ack(to, message, timestamp, "delivered", id)) >>,
               store |-> MarkDelivered(store, {id}) ]
        ELSE [ emits |-> << SocketEmit(c, "message_error",
                                [ to |-> to, message |-> message,
                                  error |-> "User is offline",
                                  timestamp |-> timestamp ]) >>,
               store |-> store ]

\* faulty variant: a message sent to a registered recipient keeps delivered = false
RouteMessageNoMark(store, c, id, to, from, message, timestamp) ==
    LET storedMessage == NewMessage(id, from, to, message, timestamp)
    IN  IF Has(connectedUsers, to)
        THEN [ emits |-> << RoomEmit(to, "private_message", storedMessage),
                            SocketEmit(c, "message_sent",
                                Ack(to, message, timestamp, "delivered", id)) >>,
               store |-> store ]
        ELSE [ emits |-> << SocketEmit(c, "message_sent",
                                Ack(to, message, timestamp, "stored", id)) >>,
               store |-> store ]

\* what socket.on('private_message') does after storeMessage: the emit calls
\* and the store, for the stored message with id `id`
RouteMessage(store, c, id, to, from, message, timestamp) ==
    LET storedMessage == NewMessage(id, from, to, message, timestamp)
    IN  IF Has(connectedUsers, to)
        THEN [ emits |-> << RoomEmit(to, "private_message", storedMessage),
                            SocketEmit(c, "message_sent",
                                Ack(to, message, timestamp, "delivered", id)) >>,
               store |-> MarkDelivered(store, {id}) ]
        ELSE [ emits |-> << SocketEmit(c, "message_sent",
                                Ack(to, message, timestamp, "stored", id)) >>,
               store |-> store ]

private_message(c, to, from, message, timestamp) ==
    /\ last = Idle
    /\ c \in open
    /\ nextId < MaxMsgs
    /\ nextId' = nextId + 1
    /\ LET stored == storeMessage(messageStore, nextId + 1, from, to, message, timestamp)
           r == RouteMessage(stored, c, nextId + 1, to, from, message, timestamp)
       IN  /\ messageStore' = r.store
           /\ emitted' = r.emits
           /\ inbox' = Deliver(r.emits)
    /\ last' = [ op |-> "private_message", sock |-> c, to |-> to, from |-> from,
                 message |-> message, timestamp |-> timestamp, id |-> nextId + 1 ]
    /\ UNCHANGED << nConn, open, connectedUsers, userSockets, rooms >>
    /\ UNCHANGED << listening, clientVars >>

\* faulty variant: an unknown id falls back to the newest message of the bucket
FindMessageOrLast(msgs, messageId) ==
    IF \E j \in 1..Len(msgs) : msgs[j].id = messageId
    THEN CHOOSE j \in 1..Len(msgs) :
            /\ msgs[j].id = messageId
            /\ \A k \in 1..(j - 1) : msgs[k].id # messageId
    ELSE Len(msgs)

\* messages.find(msg => msg.id === messageId): its index, 0 when not found
FindMessage(msgs, messageId) ==
    IF \E j \in 1..Len(msgs) : msgs[j].id = messageId
    THEN CHOOSE j \in 1..Len(msgs) :
            /\ msgs[j].id = messageId
            /\ \A k \in 1..(j - 1) : msgs[k].id # messageId
    ELSE 0

Receipt(messageId, message) ==
    [ messageId |-> messageId, readBy |-> message.to, readAt |-> "now" ]

\* faulty variant: the receipt goes to the reader's session, not to the sender's
ReadReceiptsToReader(messageId, message) ==
    IF Has(connectedUsers, message.to)
    THEN << SidEmit(connectedUsers[message.to].socketId, "message_read_receipt",
                Receipt(messageId, message)) >>
    ELSE <<>>

\* const sender = connectedUsers.get(message.from); if (sender) io.to(...).emit(...)
ReadReceipts(messageId, message) ==
    IF Has(connectedUsers, message.from)
    THEN << SidEmit(connectedUsers[message.from].socketId, "message_read_receipt",
                Receipt(messageId, message)) >>
    ELSE <<>>

message_read(c, messageId, conversationId) ==
    /\ last = Idle
    /\ c \in open
    /\ LET i == BucketIndex(messageStore, conversationId)
           j == IF i = 0 THEN 0 ELSE FindMessage(messageStore[i].msgs, messageId)
       IN  IF i # 0 /\ j # 0
           THEN LET message == messageStore[i].msgs[j]
                IN  /\ messageStore' = [messageStore EXCEPT ![i].msgs[j].read = TRUE]
                    /\ emitted' = ReadReceipts(messageId, message)
           ELSE /\ messageStore' = messageStore
                /\ emitted' = <<>>
    /\ last' = [ op |-> "message_read", sock |-> c, messageId |-> messageId,
                 conversationId |-> conversationId ]
    /\ UNCHANGED << nConn, open, connectedUsers, userSockets, rooms, nextId, inbox >>
    /\ UNCHANGED << listening, clientVars >>

\* typing_start (typing = TRUE) and typing_stop (typing = FALSE); the two
\* relays have the same code
Typing(c, to, from, typing) ==
    /\ last = Idle
    /\ c \in open
    /\ emitted' = IF Has(connectedUsers, to)
                  THEN << RoomEmit(to, "user_typing", [from |-> from, typing |-> typing]) >>
                  ELSE <<>>
    /\ UNCHANGED << nConn, open, connectedUsers, userSockets, rooms,
                    messageStore, nextId, inbox >>
    /\ UNCHANGED << listening, clientVars >>

typing_start(c, to, from) ==
    /\ Typing(c, to, from, TRUE)
    /\ last' = [op |-> "typing_start", sock |-> c, to |-> to, from |-> from]

typing_stop(c, to, from) ==
    /\ Typing(c, to, from, FALSE)
    /\ last' = [op |-> "typing_stop", sock |-> c, to |-> to, from |-> from]

get_conversation(c, otherUser) ==
    /\ last = Idle
    /\ c \in open
    /\ emitted' =
         IF Has(userSockets, c)
         THEN << SocketEmit(c, "conversation_history",
                    [ with |-> otherUser,
                      messages |-> getConversationMessages(messageStore,
                                        userSockets[c], otherUser) ]) >>
         ELSE <<>>
    /\ last' = [op |-> "get_conversation", sock |-> c, with |-> otherUser]
    /\ UNCHANGED << nConn, open, connectedUsers, userSockets, rooms,
                    messageStore, nextId, inbox >>
    /\ UNCHANGED << listening, clientVars >>

\* the transport closes socket c: it leaves its rooms before 'disconnect' fires
Close(c) ==
    /\ open' = open \ {c}
    /\ rooms' = [rooms EXCEPT ![c] = {}]

\* faulty variant: the reverse entry is left behind
UnregisterForwardOnly(c) ==
    IF Has(userSockets, c)
    THEN /\ connectedUsers' = MapDelete(connectedUsers, userSockets[c])
         /\ userSockets' = userSockets
    ELSE UNCHANGED << connectedUsers, userSockets >>

\* connectedUsers.delete(username); userSockets.delete(socket.id)
Unregister(c) ==
    IF Has(userSockets, c)
    THEN /\ connectedUsers' = MapDelete(connectedUsers, userSockets[c])
         /\ userSockets' = MapDelete(userSockets, c)
    ELSE UNCHANGED << connectedUsers, userSockets >>

\* the handler's local `username`: userSockets.get(socket.id), <<>> for undefined
DepartingUser(c) == IF Has(userSockets, c) THEN userSockets[c] ELSE <<>>

disconnect(c) ==
    /\ last = Idle
    /\ c \in open
    /\ Close(c)
    /\ Unregister(c)
    /\ emitted' = <<>>
    /\ last' = [op |-> "disconnect", sock |-> c, username |-> DepartingUser(c)]
    /\ UNCHANGED << nConn, messageStore, nextId, inbox >>
    /\ UNCHANGED << listening, clientVars >>

\* ---------------------------------------- the relay-only relay's handlers
\* faulty variant: the list is taken before the registry is updated
OnlineUsersBefore(registry) == DOMAIN connectedUsers

\* Array.from(connectedUsers.keys()), as the set of its elements
OnlineUsers(registry) == DOMAIN registry

user_join_v1(c, username, isAuthenticated) ==
    /\ last = Idle
    /\ c \in open
    /\ Register(c, username, isAuthenticated)
    /\ emitted' = << BroadcastEmit(open, "users_updated", OnlineUsers(connectedUsers')) >>
    /\ last' = [op |-> "user_join", sock |-> c, username |-> username]
    /\ UNCHANGED << nConn, open, messageStore, nextId, inbox >>
    /\ UNCHANGED << listening, clientVars >>

\* faulty variant: an offline recipient is answered with an acknowledgement
private_message_v1Ack(c, to, from, message, timestamp) ==
    /\ last = Idle
    /\ c \in open
    /\ nextId < MaxMsgs
    /\ nextId' = nextId + 1
    /\ LET es == IF Has(connectedUsers, to)
                 THEN << RoomEmit(to, "private_message",
                            [ from |-> from, to |-> to, message |-> message,
                              timestamp |-> timestamp, id |-> nextId + 1 ]),
                         SocketEmit(c, "message_sent",
                            [ to |-> to, message |-> message, timestamp |-> timestamp,
                              status |-> "delivered" ]) >>
                 ELSE << SocketEmit(c, "message_sent",
                            [ to |-> to, message |-> message, timestamp |-> timestamp,
                              status |-> "stored" ]) >>
       IN  /\ emitted' = es
           /\ inbox' = Deliver(es)
    /\ last' = [ op |-> "private_message", sock |-> c, to |-> to, from |-> from,
                 message |-> message, timestamp |-> timestamp, id |-> nextId + 1 ]
    /\ UNCHANGED << nConn, open, connectedUsers, userSockets, rooms, messageStore >>
    /\ UNCHANGED << listening, clientVars >>

private_message_v1(c, to, from, message, timestamp) ==
    /\ last = Idle
    /\ c \in open
    /\ nextId < MaxMsgs
    /\ nextId' = nextId + 1
    /\ LET es == IF Has(connectedUsers, to)
                 THEN << RoomEmit(to, "private_message",
                            [ from |-> from, to |-> to, message |-> message,
                              timestamp |-> timestamp, id |-> nextId + 1 ]),
                         SocketEmit(c, "message_sent",
                            [ to |-> to, message |-> message, timestamp |-> timestamp,
                              status |-> "delivered" ]) >>
                 ELSE << SocketEmit(c, "message_error",
                            [ to |-> to, message |-> message,
                              error |-> "User is offline", timestamp |-> timestamp ]) >>
       IN  /\ emitted' = es
           /\ inbox' = Deliver(es)
    /\ last' = [ op |-> "private_message", sock |-> c, to |-> to, from |-> from,
                 message |-> message, timestamp |-> timestamp, id |-> nextId + 1 ]
    /\ UNCHANGED << nConn, open, connectedUsers, userSockets, rooms, messageStore >>
    /\ UNCHANGED << listening, clientVars >>

\* faulty variant: the list is broadcast whether or not the socket had joined
disconnect_v1Always(c) ==
    /\ last = Idle
    /\ c \in open
    /\ Close(c)
    /\ Unregister(c)
    /\ emitted' = << BroadcastEmit(open', "users_updated", OnlineUsers(connectedUsers')) >>
    /\ last' = [op |-> "disconnect", sock |-> c, username |-> DepartingUser(c)]
    /\ UNCHANGED << nConn, messageStore, nextId, inbox >>
    /\ UNCHANGED << listening, clientVars >>

disconnect_v1(c) ==
    /\ last = Idle
    /\ c \in open
    /\ Close(c)
    /\ Unregister(c)
    /\ emitted' = IF Has(userSockets, c)
                  THEN << BroadcastEmit(open', "users_updated",
                             OnlineUsers(connectedUsers')) >>
                  ELSE <<>>
    /\ last' = [op |-> "disconnect", sock |-> c, username |-> DepartingUser(c)]
    /\ UNCHANGED << nConn, messageStore, nextId, inbox >>
    /\ UNCHANGED << listening, clientVars >>

\* ------------------------------------------------------------ client input
\* the conversationId a client may name: every pair's key, and "x"
ConvKeys == { getConversationId(a, b) : a, b \in Users } \cup { <<120>> }

\* Usernames that hold the separator of the conversation key: "a", "b_c",
\* "a_b", "c" (the client's default username is `user_${Date.now()}`).
Names == { <<97>>, <<98, 95, 99>>, <<97, 95, 98>>, <<99>> }

Next ==
    \/ next_event
    \/ connection
    \/ \E c \in Conns, u \in Users, a \in AuthFlags : user_join(c, u, a)
    \/ \E c \in Conns, to \in Users, from \in Users :
          private_message(c, to, from, Payload(from).message, Payload(from).timestamp)
    \/ \E c \in Conns, id \in 1..(MaxMsgs + 1), k \in ConvKeys : message_read(c, id, k)
    \/ \E c \in Conns, to \in Users, from \in Users : typing_start(c, to, from)
    \/ \E c \in Conns, to \in Users, from \in Users : typing_stop(c, to, from)
    \/ \E c \in Conns, u \in Users : get_conversation(c, u)
    \/ \E c \in Conns : disconnect(c)

Spec == Init /\ [][Next]_vars

NextV1 ==
    \/ next_event
    \/ connection
    \/ \E c \in Conns, u \in Users, a \in AuthFlags : user_join_v1(c, u, a)
    \/ \E c \in Conns, to \in Users, from \in Users :
          private_message_v1(c, to, from, Payload(from).message, Payload(from).timestamp)
    \/ \E c \in Conns, to \in Users, from \in Users : typing_start(c, to, from)
    \/ \E c \in Conns, to \in Users, from \in Users : typing_stop(c, to, from)
    \/ \E c \in Conns : disconnect_v1(c)

SpecV1 == Init /\ [][NextV1]_vars

\* the storing relay with the usernames Names: "a" and "a_b" join and ask
\* for their histories, the four users write to each other
Joiners == { <<97>>, <<97, 95, 98>> }
SendPairs == { << <<97>>, <<98, 95, 99>> >>, << <<98, 95, 99>>, <<97>> >>,
               << <<97, 95, 98>>, <<99>> >>, << <<99>>, <<97, 95, 98>> >> }
NextNames ==
    \/ next_event
    \/ connection
    \/ \E c \in Conns, u \in Joiners, a \in AuthFlags : user_join(c, u, a)
    \/ \E c \in Conns, p \in SendPairs :
          private_message(c, p[2], p[1], Payload(p[1]).message, Payload(p[1]).timestamp)
    \/ \E c \in Conns, u \in Names : get_conversation(c, u)

SpecNames == Init /\ [][NextNames]_vars

\* ------------------------------------------------- events without a payload
\* The handlers that start with a destructuring of their argument
\* (const { ... } = data).
DestructuringEvents ==
    { "user_join", "private_message", "message_read",
      "typing_start", "typing_stop", "get_conversation" }

\* the Node process has ended: on an uncaught exception, or by process.exit(0)
ProcessDown == last.op \in {"malformed", "exit"}

\* Socket c emits event ev with no argument (or null): the destructuring in
\* the handler's first statement throws a TypeError.  The listener is called
\* without a try/catch and the program installs no 'uncaughtException'
\* handler (socket.on('error') is not called for a listener's exception):
\* the process ends, and with it the maps, the store and every connection.
malformed_event(c, ev) ==
    /\ last = Idle
    /\ c \in open
    /\ open' = {}
    /\ rooms' = [d \in Conns |-> {}]
    /\ connectedUsers' = EmptyMap
    /\ userSockets' = EmptyMap
    /\ messageStore' = <<>>
    /\ emitted' = <<>>
    /\ last' = [op |-> "malformed", sock |-> c, event |-> ev]
    /\ UNCHANGED << nConn, nextId, inbox >>
    /\ UNCHANGED << listening, clientVars >>

\* the event loop goes on as long as the process lives
next_event_alive == ~ProcessDown /\ next_event

NextMalformed ==
    \/ next_event_alive
    \/ connection
    \/ \E c \in Conns, u \in Users, a \in AuthFlags : user_join(c, u, a)
    \/ \E c \in Conns, to \in Users, from \in Users :
          private_message(c, to, from, Payload(from).message, Payload(from).timestamp)
    \/ \E c \in Conns : disconnect(c)
    \/ \E c \in Conns, ev \in DestructuringEvents : malformed_event(c, ev)

SpecMalformed == Init /\ [][NextMalformed]_vars

\* ---------------------------------------------------------------- shutdown
Signals == { "SIGTERM", "SIGINT" }

\* process.on('SIGTERM' | 'SIGINT'): server.close(callback).  The server
\* stops listening; the connections that are open stay open and are served.
signal(sig) ==
    /\ last = Idle
    /\ listening' = FALSE
    /\ emitted' = <<>>
    /\ last' = [op |-> "signal", sock |-> 0, signal |-> sig]
    /\ UNCHANGED << nConn, open, connectedUsers, userSockets, rooms,
                    messageStore, nextId, inbox, clientVars >>

\* the callback of server.close: 'close' is emitted once the server has
\* stopped listening and every connection has ended; then process.exit(0)
server_closed ==
    /\ last = Idle
    /\ ~listening
    /\ open = {}
    /\ emitted' = <<>>
    /\ last' = [op |-> "exit", sock |-> 0]
    /\ UNCHANGED << nConn, open, connectedUsers, userSockets, rooms,
                    messageStore, nextId, inbox, listening, clientVars >>

NextDrain ==
    \/ next_event_alive
    \/ connection
    \/ \E c \in Conns, u \in Users, a \in AuthFlags : user_join(c, u, a)
    \/ \E c \in Conns : disconnect(c)
    \/ \E sig \in Signals : signal(sig)
    \/ server_closed

\* The event loop returns from every handler, and it runs the callback of
\* server.close once it is due, however many other events arrive; when a
\* client closes its connection is the client's choice.
SpecDrain ==
    Init /\ [][NextDrain]_vars /\ WF_vars(next_event_alive) /\ SF_vars(server_closed)

\* ------------------------------------------------- the client SocketService
MaxSockets == 3

serverVars == << nConn, open, connectedUsers, userSockets, rooms,
                 messageStore, nextId, inbox, emitted, last, listening >>

\* this.socket.disconnect(); this.socket = null
ServiceDisconnect(socks, cur) ==
    IF cur # 0
    THEN [ sockets |-> [socks EXCEPT ![cur] = "closed"], current |-> 0 ]
    ELSE [ sockets |-> socks, current |-> cur ]

\* SocketService.connect(username): the current socket is disconnected only
\* if it is connected; then a new socket is created and becomes this.socket
Connect(username) ==
    /\ Len(sockets) < MaxSockets
    /\ LET before == IF current # 0 /\ sockets[current] = "connected"
                     THEN ServiceDisconnect(sockets, current)
                     ELSE [ sockets |-> sockets, current |-> current ]
       IN  /\ sockets' = Append(before.sockets, "connecting")
           /\ current' = Len(sockets) + 1
    /\ currentUser' = username
    /\ UNCHANGED << userJoins, serverVars >>

\* SocketService.disconnect()
Disconnect ==
    /\ current # 0
    /\ sockets' = ServiceDisconnect(sockets, current).sockets
    /\ current' = ServiceDisconnect(sockets, current).current
    /\ UNCHANGED << currentUser, userJoins, serverVars >>

\* socket i gets connected and its 'connect' listener runs:
\* this.socket?.emit('user_join', {username: this.currentUser, ...}), an
\* emit on the service's current socket (buffered until that one is connected)
OnConnect(i) ==
    /\ i \in 1..Len(sockets)
    /\ sockets[i] = "connecting"
    /\ sockets' = [sockets EXCEPT ![i] = "connected"]
    /\ userJoins' = IF current # 0
                    THEN userJoins \cup { [socket |-> current, username |-> currentUser] }
                    ELSE userJoins
    /\ UNCHANGED << current, currentUser, serverVars >>

\* socket i loses its transport: socket.io-client reconnects on its own
\* (this.socket.on('disconnect') only logs)
OnDisconnect(i) ==
    /\ i \in 1..Len(sockets)
    /\ sockets[i] = "connected"
    /\ sockets' = [sockets EXCEPT ![i] = "connecting"]
    /\ UNCHANGED << current, currentUser, userJoins, serverVars >>

NextClient ==
    \/ \E u \in Users : Connect(u)
    \/ Disconnect
    \/ \E i \in 1..MaxSockets : OnConnect(i)
    \/ \E i \in 1..MaxSockets : OnDisconnect(i)

SpecClient == Init /\ [][NextClient]_vars

\* ================================================================ claims
Msgs == AllMessages(messageStore)
Between(m, A, B) == (m.from = A /\ m.to = B) \/ (m.from = B /\ m.to = A)
\* the messages exchanged between A and B that history(A, B) returns
History(A, B) ==
    SelectSeq(getConversationMessages(messageStore, A, B), LAMBDA m : Between(m, A, B))
\* the stored message with this id
Stored(id) == CHOOSE m \in StoredMsgs : m.id = id
IsStored(id) == \E m \in StoredMsgs : m.id = id
\* the emit calls of the last handler that carry event ev
Calls(ev) == SelectSeq(emitted, LAMBDA e : e.ev = ev)

\* C1: every send is stored, and for all A, B the conversation of (A, B)
\* lists the messages sent between them in the order their sends were
\* handled (ids are handed out in that order), delivered or not.
C1_HistoryInSendOrder ==
    /\ { m.id : m \in StoredMsgs } = 1..nextId
    /\ Len(Msgs) = nextId
    /\ \A A \in Users, B \in Users :
          LET h == History(A, B)
          IN  /\ \A i \in 1..Len(h), j \in 1..Len(h) : i < j => h[i].id < h[j].id
              /\ \A m \in StoredMsgs : Between(m, A, B) => \E i \in 1..Len(h) : h[i] = m

C1_Witness ==
    \E A \in Users, B \in Users :
        LET h == History(A, B)
        IN  /\ A # B
            /\ Len(h) = 2
            /\ h[1].from = A /\ h[2].from = B
            /\ h[1].delivered /\ ~h[2].delivered

\* C2: a private_message to a recipient with no registry entry is answered
\* with exactly one message_sent {to, message, timestamp, status 'stored',
\* messageId} on the sending socket and nothing else (no message_error), and
\* the stored record keeps delivered = false.
C2_OfflineSendIsStored ==
    (last.op = "private_message" /\ ~Has(connectedUsers, last.to)) =>
        /\ emitted = << [ ev |-> "message_sent", kind |-> "socket", sock |-> last.sock,
                          user |-> <<>>, rcv |-> {last.sock},
                          data |-> [ to |-> last.to, message |-> last.message,
                                     timestamp |-> last.timestamp, status |-> "stored",
                                     messageId |-> last.id ] ] >>
        /\ IsStored(last.id)
        /\ Stored(last.id) = [ id |-> last.id, from |-> last.from, to |-> last.to,
                               message |-> last.message, timestamp |-> last.timestamp,
                               delivered |-> FALSE, read |-> FALSE ]

C2_Witness ==
    /\ last.op = "private_message"
    /\ ~Has(connectedUsers, last.to)
    /\ Calls("message_sent") # <<>>
    /\ last.id = 2
\* C3: a private_message to a registered recipient gives exactly one
\* private_message event received by the recipient, exactly one message_sent
\* with status 'delivered' and the stored id on the sending socket, and the
\* stored record has delivered = true.
C3_OnlineSendDeliveredOnce ==
    (last.op = "private_message" /\ Has(connectedUsers, last.to)) =>
        LET pm == Calls("private_message")
            ack == Calls("message_sent")
        IN  /\ Len(pm) = 1
            /\ Cardinality(pm[1].rcv) = 1
            /\ pm[1].data.id = last.id
            /\ Len(ack) = 1
            /\ ack[1].rcv = {last.sock}
            /\ ack[1].data.status = "delivered"
            /\ ack[1].data.messageId = last.id
            /\ IsStored(last.id)
            /\ Stored(last.id).delivered

\* the step is the run of a user_join handler
JoinStep == last = Idle /\ last'.op = "user_join"
StoredMsgsAfter == Range(AllMessages(messageStore'))

\* C4: a message stored for an offline recipient keeps delivered = false
\* until a user_join of its recipient; that user_join emits it as
\* private_message to the joining socket and sets its delivered flag.
C4_BacklogFlushedOnJoin ==
    [][ /\ JoinStep =>
            \A m \in StoredMsgs :
                (m.to = last'.username /\ ~m.delivered) =>
                    /\ \E k \in 1..Len(emitted') :
                          /\ emitted'[k].ev = "private_message"
                          /\ emitted'[k].rcv = {last'.sock}
                          /\ emitted'[k].data.id = m.id
                    /\ \E n \in StoredMsgsAfter : n.id = m.id /\ n.delivered
        /\ \A m \in StoredMsgs :
              (~m.delivered /\ \E n \in StoredMsgsAfter : n.id = m.id /\ n.delivered)
                 => (last'.op = "user_join" /\ last'.username = m.to)
      ]_vars

C4_Witness ==
    /\ last.op = "user_join"
    /\ Len(Calls("private_message")) = 2
    /\ \A m \in StoredMsgs : m.to = last.username /\ m.delivered

\* C5: every send is stored, and at all times a stored message has been
\* received by a socket of its recipient or still has delivered = false.
C5_NoMessageLost ==
    /\ { m.id : m \in StoredMsgs } = 1..nextId
    /\ \A m \in StoredMsgs :
          \/ ~m.delivered
          \/ \E c \in Conns : \E i \in 1..Len(inbox[c]) : inbox[c][i] = m.id

\* C6: after a user_join the username is bound to the joining socket, and no
\* other socket is still recorded for that username.
C6_OneSessionPerUsername ==
    last.op = "user_join" =>
        /\ Has(connectedUsers, last.username)
        /\ connectedUsers[last.username].socketId = last.sock
        /\ \A c \in DOMAIN userSockets : userSockets[c] = last.username => c = last.sock

\* the message a message_read names, when the key and the id are known
ReadFound ==
    /\ last.op = "message_read"
    /\ BucketIndex(messageStore, last.conversationId) # 0
    /\ FindMessage(BucketOf(messageStore, last.conversationId), last.messageId) # 0
ReadMessage ==
    LET msgs == BucketOf(messageStore, last.conversationId)
    IN  msgs[FindMessage(msgs, last.messageId)]

\* C7: after a message_read that names an existing key and id the message
\* has read = true, and one message_read_receipt {messageId, readBy = the
\* message's recipient, readAt} is emitted to the socket registered for the
\* message's sender if the sender is registered; nothing is emitted if not.
C7_ReadReceipt ==
    ReadFound =>
        /\ ReadMessage.read
        /\ IF Has(connectedUsers, ReadMessage.from)
           THEN emitted =
                  << [ ev |-> "message_read_receipt", kind |-> "sid_room",
                       sock |-> connectedUsers[ReadMessage.from].socketId,
                       user |-> <<>>,
                       rcv |-> {connectedUsers[ReadMessage.from].socketId} \cap open,
                       data |-> [ messageId |-> last.messageId,
                                  readBy |-> ReadMessage.to, readAt |-> "now" ] ] >>
           ELSE emitted = <<>>

C7_Witness ==
    /\ ReadFound
    /\ ReadMessage.from # ReadMessage.to
    /\ Has(connectedUsers, ReadMessage.from)
    /\ Has(connectedUsers, ReadMessage.to)
    /\ emitted # <<>>

\* C8 (relay-only version): the users_updated list sent by a user_join holds
\* the username that joined; the list sent by a disconnect does not hold the
\* username of the departing socket.
C8_SnapshotMembership ==
    /\ last.op = "user_join" =>
          /\ Len(Calls("users_updated")) = 1
          /\ \A k \in 1..Len(emitted) :
                emitted[k].ev = "users_updated" => last.username \in emitted[k].data
    /\ last.op = "disconnect" =>
          \A k \in 1..Len(emitted) :
              emitted[k].ev = "users_updated" => last.username \notin emitted[k].data

C8_Witness ==
    /\ last.op = "disconnect"
    /\ Calls("users_updated") # <<>>
    /\ emitted[1].data # {}

\* C9: after every user_join and every disconnect of a joined socket, one
\* users_updated event with the full set of registered usernames goes to
\* every connected socket.
C9_PresenceBroadcast ==
    (last.op = "user_join" \/ (last.op = "disconnect" /\ last.username # <<>>)) =>
        \E k \in 1..Len(emitted) :
            /\ emitted[k].ev = "users_updated"
            /\ emitted[k].rcv = open
            /\ emitted[k].data = DOMAIN connectedUsers

IsPrefix(s, t) == Len(s) <= Len(t) /\ SubSeq(t, 1, Len(s)) = s
\* what socket c receives in this step
NewInbox(c) == SubSeq(inbox'[c], Len(inbox[c]) + 1, Len(inbox'[c]))

\* C10: a user_join hands every message pending for the username to the
\* joining socket, once each, and sets their delivered flags, in the same
\* handler run; a message sent later reaches a socket after what that socket
\* has already received.
C10_BacklogBeforeNewTraffic ==
    [][ /\ \A c \in Conns : IsPrefix(inbox[c], inbox'[c])
        /\ JoinStep =>
              LET pending == { m \in StoredMsgs : m.to = last'.username /\ ~m.delivered }
                  got == NewInbox(last'.sock)
              IN  /\ Range(got) = { m.id : m \in pending }
                  /\ Len(got) = Cardinality(pending)
                  /\ \A m \in pending : \E n \in StoredMsgsAfter : n.id = m.id /\ n.delivered
                  /\ nextId' = nextId
        /\ (last = Idle /\ last'.op = "private_message") =>
              \A c \in Conns : Range(NewInbox(c)) \subseteq {nextId + 1}
      ]_vars

C10_Witness ==
    /\ last.op = "user_join"
    /\ Len(emitted) = 1
    /\ emitted[1].ev = "private_message"
    /\ inbox[last.sock] = << emitted[1].data.id >>
    /\ nextId < MaxMsgs

\* the ids the private_message emit calls of the handler run in this step carry
EmittedIdsAfter ==
    { emitted'[k].data.id : k \in { n \in 1..Len(emitted') : emitted'[n].ev = "private_message" } }

\* C11: a message is emitted as private_message in at most one handler run:
\* a handler emits a message only if its delivered flag was not yet true
\* (it is new or pending), emits it in one emit call, and leaves it with
\* delivered = true; a delivered flag that is true stays true.
C11_EmittedInOneHandlerRun ==
    [][ /\ \A m \in StoredMsgs : m.delivered => m.id \notin EmittedIdsAfter
        /\ \A id \in EmittedIdsAfter :
              /\ \E n \in StoredMsgsAfter : n.id = id /\ n.delivered
              /\ Cardinality({ k \in 1..Len(emitted') :
                                 /\ emitted'[k].ev = "private_message"
                                 /\ emitted'[k].data.id = id }) = 1
        /\ \A m \in StoredMsgs :
              m.delivered => \E n \in StoredMsgsAfter : n.id = m.id /\ n.delivered
      ]_vars

\* a delivered message's recipient joins on a socket that never received it:
\* the join emits nothing
C11_Witness ==
    /\ last.op = "user_join"
    /\ emitted = <<>>
    /\ \E m \in StoredMsgs :
          /\ m.to = last.username
          /\ m.delivered
          /\ \A i \in 1..Len(inbox[last.sock]) : inbox[last.sock][i] # m.id

\* the step is the run of a typing_start or typing_stop handler
TypingStep == last = Idle /\ last'.op \in {"typing_start", "typing_stop"}

\* C12: a typing_start / typing_stop naming a registered recipient gives one
\* user_typing {from, typing} event, received by one socket; naming an
\* unregistered recipient it emits nothing; in both cases the registry and
\* the store are unchanged.
C12_TypingSignal ==
    [][ TypingStep =>
          /\ UNCHANGED << connectedUsers, userSockets, messageStore >>
          /\ IF Has(connectedUsers, last'.to)
             THEN /\ Len(emitted') = 1
                  /\ emitted'[1].ev = "user_typing"
                  /\ emitted'[1].data = [ from |-> last'.from,
                                          typing |-> (last'.op = "typing_start") ]
                  /\ Cardinality(emitted'[1].rcv) = 1
             ELSE emitted' = <<>>
      ]_vars

\* C13: a user_typing or private_message event emitted for username u is
\* received by no socket other than the one the registry binds to u.
C13_OnlyRegisteredSessionReceives ==
    \A k \in 1..Len(emitted) :
        (emitted[k].kind = "user_room" /\ emitted[k].ev \in {"user_typing", "private_message"}) =>
            /\ Has(connectedUsers, emitted[k].user)
            /\ emitted[k].rcv \subseteq { connectedUsers[emitted[k].user].socketId }

\* C14: for all usernames A and B, every message that
\* getConversationMessages(A, B) returns, and every message a
\* conversation_history event carries, was exchanged between A and B.
C14_BucketHoldsOnePair ==
    /\ \A A \in Names, B \in Names :
          \A m \in Range(getConversationMessages(messageStore, A, B)) :
              {m.from, m.to} = {A, B}
    /\ \A k \in 1..Len(emitted) :
          emitted[k].ev = "conversation_history" =>
              \A m \in Range(emitted[k].data.messages) :
                  {m.from, m.to} = {userSockets[last.sock], last.with}

\* C15: getConversationId(A, B) = getConversationId(B, A) for all usernames,
\* the store has one bucket per key, and every message lies in the bucket
\* whose key both orders of its two usernames give.
C15_KeyIsOrderIndependent ==
    /\ \A A \in Names, B \in Names : getConversationId(A, B) = getConversationId(B, A)
    /\ \A i \in 1..Len(messageStore), j \in 1..Len(messageStore) :
          messageStore[i].key = messageStore[j].key => i = j
    /\ \A i \in 1..Len(messageStore) :
          \A m \in Range(messageStore[i].msgs) :
              /\ messageStore[i].key = getConversationId(m.from, m.to)
              /\ messageStore[i].key = getConversationId(m.to, m.from)

\* a message from A to B and one from B to A lie in the same bucket
C15_Witness ==
    \E i \in 1..Len(messageStore) :
        /\ Len(messageStore[i].msgs) = 2
        /\ messageStore[i].msgs[1].from = messageStore[i].msgs[2].to
        /\ messageStore[i].msgs[1].to = messageStore[i].msgs[2].from
        /\ messageStore[i].msgs[1].from # messageStore[i].msgs[1].to

\* the step is the run of a disconnect handler
DisconnectStep == last = Idle /\ last'.op = "disconnect"

\* C16: the disconnect of a socket that has a reverse entry removes the
\* forward entry of the username that entry names and the reverse entry of
\* the socket; every other entry of both maps and the store are unchanged.
C16_UnregisterRemovesBoth ==
    [][ (DisconnectStep /\ Has(userSockets, last'.sock)) =>
          LET c == last'.sock
              username == userSockets[c]
          IN  /\ last'.username = username
              /\ DOMAIN connectedUsers' = DOMAIN connectedUsers \ {username}
              /\ \A u \in DOMAIN connectedUsers' : connectedUsers'[u] = connectedUsers[u]
              /\ DOMAIN userSockets' = DOMAIN userSockets \ {c}
              /\ \A d \in DOMAIN userSockets' : userSockets'[d] = userSockets[d]
              /\ messageStore' = messageStore
      ]_vars

\* a joined socket has left while another socket and a stored message stay
C16_Witness ==
    /\ last.op = "disconnect"
    /\ last.username # <<>>
    /\ DOMAIN userSockets # {}
    /\ DOMAIN connectedUsers # {}
    /\ messageStore # <<>>

\* C17: the disconnect of a socket without a reverse entry (it never sent
\* user_join) leaves both maps and the store unchanged and emits nothing.
C17_DisconnectBeforeJoinIsNoOp ==
    [][ (DisconnectStep /\ ~Has(userSockets, last'.sock)) =>
          /\ last'.username = <<>>
          /\ UNCHANGED << connectedUsers, userSockets, messageStore >>
          /\ emitted' = <<>>
      ]_vars

\* a socket that never joined has left while a joined socket is connected
C17_Witness ==
    /\ last.op = "disconnect"
    /\ last.username = <<>>
    /\ rooms[last.sock] = {}
    /\ \E c \in open : Has(userSockets, c)

\* C18: a user_join on a socket that already joined under the same username
\* (it is in the room user_<username>) binds the username to the socket, the
\* socket to the username and keeps the room membership as the first join
\* left them; when both bindings still stand nothing of the registry
\* changes; and the join emits no message the socket has already received.
C18_RejoinIsIdempotent ==
    [][ (JoinStep /\ last'.username \in rooms[last'.sock]) =>
          LET c == last'.sock
              username == last'.username
          IN  /\ connectedUsers'[username].socketId = c
              /\ userSockets'[c] = username
              /\ rooms' = rooms
              /\ \A u \in DOMAIN connectedUsers \ {username} :
                    Has(connectedUsers', u) /\ connectedUsers'[u] = connectedUsers[u]
              /\ \A d \in DOMAIN userSockets \ {c} :
                    Has(userSockets', d) /\ userSockets'[d] = userSockets[d]
              /\ ( ( /\ Has(connectedUsers, username)
                     /\ connectedUsers[username].socketId = c
                     /\ Has(userSockets, c)
                     /\ userSockets[c] = username )
                   => UNCHANGED << connectedUsers, userSockets, rooms >> )
              /\ \A id \in EmittedIdsAfter :
                    \A i \in 1..Len(inbox[c]) : inbox[c][i] # id
      ]_vars

\* the socket joined under this username before (it received a message for
\* it earlier) and this join emitted nothing
C18_Witness ==
    /\ last.op = "user_join"
    /\ emitted = <<>>
    /\ connectedUsers[last.username].socketId = last.sock
    /\ \E i \in 1..Len(inbox[last.sock]) :
          /\ IsStored(inbox[last.sock][i])
          /\ Stored(inbox[last.sock][i]).to = last.username

\* C19: in every step every bucket keeps its key and its messages in their
\* places, with id, from, to, message and timestamp unchanged; a delivered or
\* read flag that is true stays true; buckets and messages are only added
\* at the end.
C19_StoreIsAppendOnly ==
    [][ /\ Len(messageStore) <= Len(messageStore')
        /\ \A i \in 1..Len(messageStore) :
              /\ messageStore'[i].key = messageStore[i].key
              /\ Len(messageStore[i].msgs) <= Len(messageStore'[i].msgs)
              /\ \A j \in 1..Len(messageStore[i].msgs) :
                    LET old == messageStore[i].msgs[j]
                        new == messageStore'[i].msgs[j]
                    IN  /\ new.id = old.id
                        /\ new.from = old.from
                        /\ new.to = old.to
                        /\ new.message = old.message
                        /\ new.timestamp = old.timestamp
                        /\ old.delivered => new.delivered
                        /\ old.read => new.read
      ]_vars

\* two messages in one bucket, the first one delivered and read
C19_Witness ==
    \E i \in 1..Len(messageStore) :
        /\ Len(messageStore[i].msgs) = 2
        /\ messageStore[i].msgs[1].delivered
        /\ messageStore[i].msgs[1].read
        /\ ~messageStore[i].msgs[2].delivered

\* the message_read of this step names a bucket and a message in it
ReadHits ==
    \E i \in 1..Len(messageStore) :
        /\ messageStore[i].key = last'.conversationId
        /\ \E j \in 1..Len(messageStore[i].msgs) :
              messageStore[i].msgs[j].id = last'.messageId

\* C20: a message_read whose conversationId has no bucket, or whose
\* messageId is not in that bucket, changes no stored message and no other
\* state and emits nothing.
C20_UnknownReadIsNoOp ==
    [][ (last = Idle /\ last'.op = "message_read" /\ ~ReadHits) =>
          /\ UNCHANGED << messageStore, connectedUsers, userSockets, rooms, inbox, open >>
          /\ emitted' = <<>>
      ]_vars

\* a message_read named an existing bucket and an id that is not in it,
\* while the senders of the bucket's messages are registered
C20_Witness ==
    /\ last.op = "message_read"
    /\ \E i \in 1..Len(messageStore) :
          /\ messageStore[i].key = last.conversationId
          /\ \A m \in Range(messageStore[i].msgs) :
                m.id # last.messageId /\ ~m.read /\ Has(connectedUsers, m.from)

\* the step is the run of a private_message handler
SendStep == last = Idle /\ last'.op = "private_message"

\* C21 (relay-only version): a private_message to a username without a
\* forward entry emits exactly one event, message_error {to, message, error,
\* timestamp}, to the sending socket alone; no socket receives a
\* private_message and nothing is stored.
C21_OfflineSendIsAnError ==
    [][ (SendStep /\ ~Has(connectedUsers, last'.to)) =>
          /\ emitted' = << [ ev |-> "message_error", kind |-> "socket",
                             sock |-> last'.sock, user |-> <<>>,
                             rcv |-> {last'.sock},
                             data |-> [ to |-> last'.to, message |-> last'.message,
                                        error |-> "User is offline",
                                        timestamp |-> last'.timestamp ] ] >>
          /\ inbox' = inbox
          /\ messageStore' = <<>>
          /\ UNCHANGED << connectedUsers, userSockets, rooms >>
      ]_vars

\* an offline send has just been answered with message_error while a second
\* socket is connected
C21_Witness ==
    /\ last.op = "private_message"
    /\ ~Has(connectedUsers, last.to)
    /\ Calls("message_error") # <<>>
    /\ Cardinality(open) = 2

\* C22: when a user_join emits two messages of the same bucket, the one
\* that stands earlier in the bucket is emitted earlier.
C22_FlushKeepsBucketOrder ==
    last.op = "user_join" =>
        \A i \in 1..Len(messageStore) :
            \A j1 \in 1..Len(messageStore[i].msgs), j2 \in 1..Len(messageStore[i].msgs) :
                \A k1 \in 1..Len(emitted), k2 \in 1..Len(emitted) :
                    ( /\ j1 < j2
                      /\ emitted[k1].ev = "private_message"
                      /\ emitted[k2].ev = "private_message"
                      /\ emitted[k1].data.id = messageStore[i].msgs[j1].id
                      /\ emitted[k2].data.id = messageStore[i].msgs[j2].id )
                    => k1 < k2

\* a join has flushed two messages of one bucket
C22_Witness ==
    /\ last.op = "user_join"
    /\ Len(emitted) = 2
    /\ \E i \in 1..Len(messageStore) :
          /\ Len(messageStore[i].msgs) = 2
          /\ emitted[1].data.id = messageStore[i].msgs[1].id
          /\ emitted[2].data.id = messageStore[i].msgs[2].id
          /\ inbox[last.sock] = << emitted[1].data.id, emitted[2].data.id >>

\* C23: a stored message's read flag turns true only in a message_read sent
\* by a socket that joined under the message's recipient; a message_read
\* from any other socket changes no message and emits no receipt.
C23_OnlyRecipientMarksRead ==
    [][ /\ \A m \in StoredMsgs :
              (~m.read /\ \E n \in StoredMsgsAfter : n.id = m.id /\ n.read) =>
                  /\ last'.op = "message_read"
                  /\ m.to \in rooms[last'.sock]
        /\ (last = Idle /\ last'.op = "message_read") =>
              \A m \in StoredMsgs :
                  (m.id = last'.messageId /\ m.to \notin rooms[last'.sock]) =>
                      /\ messageStore' = messageStore
                      /\ emitted' = <<>>
      ]_vars

\* C24: the from field of the message a private_message handler stores and
\* emits is a username under which the sending socket has joined.
C24_FromIsRegisteredName ==
    last.op = "private_message" =>
        /\ last.from \in rooms[last.sock]
        /\ \A m \in StoredMsgs : m.id = last.id => m.from \in rooms[last.sock]
        /\ \A k \in 1..Len(emitted) :
              emitted[k].ev = "private_message" => emitted[k].data.from \in rooms[last.sock]

\* C25: an event of socket c with a missing payload leaves the process
\* running, and leaves every other socket connected, with its rooms and its
\* reverse entry, every forward entry bound to another socket, and the
\* stored messages as they were.
C25_MalformedInputStaysLocal ==
    [][ (last = Idle /\ last'.op = "malformed") =>
          LET c == last'.sock
          IN  /\ ~ProcessDown'
              /\ \A d \in open \ {c} :
                    /\ d \in open'
                    /\ rooms'[d] = rooms[d]
                    /\ Has(userSockets, d) =>
                          (Has(userSockets', d) /\ userSockets'[d] = userSockets[d])
              /\ \A u \in DOMAIN connectedUsers :
                    connectedUsers[u].socketId # c =>
                        (Has(connectedUsers', u) /\ connectedUsers'[u] = connectedUsers[u])
              /\ messageStore' = messageStore
      ]_vars

\* C26: once a SIGTERM or SIGINT has made the server stop listening, the
\* process eventually exits, whether or not connections are open.
C26_DrainTerminates == (~listening) ~> (last.op = "exit")

\* C27: every username of connectedUsers is bound to a socket that is
\* connected and whose userSockets entry is that username.
C27_ForwardEntriesAreLive ==
    \A u \in DOMAIN connectedUsers :
        /\ connectedUsers[u].socketId \in open
        /\ Has(userSockets, connectedUsers[u].socketId)
        /\ userSockets[connectedUsers[u].socketId] = u

\* C28: when a socket whose reverse entry names u disconnects while the
\* forward entry of u is bound to another, connected socket, u stays
\* registered and bound to that socket.
C28_SupersededDisconnectKeepsSession ==
    [][ (DisconnectStep /\ Has(userSockets, last'.sock)) =>
          LET c1 == last'.sock
              u == userSockets[c1]
          IN  ( /\ Has(connectedUsers, u)
                /\ connectedUsers[u].socketId # c1
                /\ connectedUsers[u].socketId \in open )
              => ( /\ Has(connectedUsers', u)
                   /\ connectedUsers'[u] = connectedUsers[u] )
      ]_vars

\* C29: no stored message addressed to a username of connectedUsers has
\* delivered = false.
C29_RegisteredUserHasNoBacklog ==
    \A m \in StoredMsgs : Has(connectedUsers, m.to) => m.delivered

\* the one connected socket is registered and has received both messages
\* sent to its username, which are flagged delivered
C29_Witness ==
    /\ last.op = "private_message"
    /\ last.id = 2
    /\ Has(connectedUsers, last.to)
    /\ \A m \in StoredMsgs : m.to = last.to /\ m.delivered
    /\ inbox[connectedUsers[last.to].socketId] = << 1, 2 >>
    /\ Cardinality(open) = 1
    /\ rooms[connectedUsers[last.to].socketId] = {last.to}

\* C30: after every call and event every socket the service created, other
\* than its current one, is disconnected, and while the service has no
\* current socket no user_join is sent.
C30_OneOpenTransport ==
    [][ /\ \A i \in 1..Len(sockets') : i # current' => sockets'[i] = "closed"
        /\ (current = 0 /\ current' = 0) => userJoins' = userJoins
      ]_vars
====
